---------------------------- MODULE Spec2Model ----------------------------
(***************************************************************************)
(* Model of the synchronization core of the multi-process garbage          *)
(* collector: the handshake protocol (mpgc/gc_handshake.h), the CAS retry   *)
(* primitive (ruts/cas_loop.h) and the lock-free stack                      *)
(* (ruts/lock_free_stack.h).                                                *)
(***************************************************************************)
EXTENDS Integers, Sequences, FiniteSets, TLC

(***************************************************************************)
(* Bounds of the model.                                                    *)
(***************************************************************************)
NThreads == 2

MaxVal == 2

MaxTries == 2

MaxInterfere == 2

NNodes == 2

MaxOps == 6

\* Operations started on the stack that also has bulk pushes and clears.
MaxAllOps == 4

(***************************************************************************)
(* gc_handshake.h: enum Signum, enum Weak_signal, enum Alive.               *)
(***************************************************************************)
sigSync1 == "sigSync1"
sigSync2 == "sigSync2"
sigAsync == "sigAsync"
sigDeferredAsync == "sigDeferredAsync"
sigSweep == "sigSweep"
sigDeferredSweep == "sigDeferredSweep"
sigInit == "sigInit"

Signum == {sigSync1, sigSync2, sigAsync, sigDeferredAsync, sigSweep,
           sigDeferredSweep, sigInit}

InBarrier == "InBarrier"
DoHandshake == "DoHandshake"
Working == "Working"

Weak_signal == {InBarrier, DoHandshake, Working}

Dead == "Dead"
Live == "Live"

Threads == 1..NThreads

\* The null pointer returned by head()/next() at the end of the registry.
NoThread == 0

\* The phases the collector hands to handshake() in this model.
HandshakeSigs == {sigSync1, sigAsync}

VARIABLES
  \* ---- thread registry and the participant records (in_memory_thread_struct)
  thread_struct_list,     \* the registry, head first
  status_idx,             \* [Threads -> Signum]
  weak_signal,            \* [Threads -> Weak_signal]
  live,                   \* [Threads -> {Live, Dead}]
  mark_signal_disabled,   \* [Threads -> BOOLEAN]
  sweep_signal_disabled,  \* [Threads -> BOOLEAN]
  tpc,                    \* position of each mutator thread
  sigq,                   \* [Threads -> SUBSET Signum]: queued SIGRTMIN payloads
  request_gc_termination, \* the process-wide termination flag
  \* ---- the collector running handshake()
  cpc,                    \* position of the collector
  h,                      \* the record the collector's walk is at
  sig,                    \* handshake argument
  doWeakCheck,            \* handshake argument
  \* ---- history of the current handshake() call
  r_status,               \* the status the collector's current spin iteration read
  aborted,                \* wait_handshake returned through the termination poll
  sent,                   \* [Threads -> Nat]: signals queued by post_handshake
  seen,                   \* [Threads -> what wait_handshake read when it left the record]
  \* ---- history of the deferred spins
  respun                  \* [Threads -> BOOLEAN]: a deferred spin went round with the flag set

hsvars == <<thread_struct_list, status_idx, weak_signal, live,
            mark_signal_disabled, sweep_signal_disabled, tpc, sigq,
            request_gc_termination, cpc, h, sig, doWeakCheck,
            r_status, aborted, sent, seen, respun>>

VARIABLES
  \* ---- cas_loop.h: one atomic word and the calls in progress on it
  a,            \* std::atomic<T> a
  cas_pc,       \* [Callers -> "idle" | "try" | "done"]
  cas_kind,     \* which entry point the caller used
  cas_cont,     \* continue_fn
  cas_upd,      \* update_fn
  tries_arg,    \* the max_tries argument (0 when the entry point has none)
  max_tries,    \* the by-reference max_tries captured by the bounding lambda
  prior_value,  \* cas_loop_return_value::prior_value
  new_value,    \* cas_loop_return_value::new_value
  succeeded,    \* cas_loop_return_value::succeeded
  \* ---- history of each call
  n_cas,        \* compare_exchange_strong calls made
  n_upd,        \* update_fn invocations
  first_obs,    \* the value first_try loaded
  last_obs,     \* the value of a at the call's latest access to it
  n_interf,     \* writes to a made by other writers
  change_from   \* the argument from of change (0 for the other entry points)

casvars == <<a, cas_pc, cas_kind, cas_cont, cas_upd, tries_arg, max_tries,
             prior_value, new_value, succeeded, n_cas, n_upd, first_obs,
             last_obs, n_interf, change_from>>

VARIABLES
  \* ---- lock_free_stack.h: one lf_stack and the threads operating on it
  st_head,      \* _head: the versioned pointer [ptr, ver]
  st_next,      \* entry::next of every node
  st_free,      \* the nodes the allocator holds
  owned,        \* [Procs -> SUBSET Nodes]: detached nodes a thread holds
  s_pc,         \* position of each thread in its operation
  s_node,       \* the entry e a push is linking in
  s_prior,      \* the head value the cas loop last observed (prior_value)
  s_new,        \* the h->next a pop read for its new head
  s_ret,        \* the out-parameter ret of pop
  s_end,        \* the last entry e of the chain a bulk push is linking in
  temp,         \* the local versioned_head_t temp of clear
  \* ---- history
  pushes,       \* [Nodes -> Nat]: completed pushes of each node
  pops,         \* [Nodes -> Nat]: pops that returned each node
  unlinks,      \* [Nodes -> Nat]: successful unlink steps of clear on each node
  destroyed,    \* [Nodes -> Nat]: destructions and deallocations by clear
  n_ops         \* push, pop and clear operations started

\* What push(p), pop and allocate leave alone: the state of bulk push and clear.
clrvars == <<s_end, temp, unlinks, destroyed>>

stvars == <<st_head, st_next, st_free, owned, s_pc, s_node, s_prior, s_new,
            s_ret, pushes, pops, n_ops, clrvars>>

VARIABLES
  \* ---- cas_loop.h: process_onceish over one sequence and one counter a
  po_ready,     \* the sequence and the counter have been set up
  po_n,         \* to - from: the number of elements
  po_a0,        \* the value the counter was set up with
  po_pc,        \* [Callers -> position in process_onceish]
  po_next,      \* the local T next of each caller
  \* ---- history
  applied,      \* [element index -> Nat]: applications of fn
  applied_by    \* [Callers -> SUBSET element indices]: whose fn ran on what

povars == <<po_ready, po_n, po_a0, po_pc, po_next, applied, applied_by>>

vars == <<hsvars, casvars, stvars, povars>>

\* What an action of one component leaves alone in the others.
nonhs == <<casvars, stvars, povars>>
noncas == <<hsvars, stvars, povars>>
nonst == <<hsvars, casvars, povars>>

\* A field the collector did not read on the iteration that left a record.
Unread == "unread"

Unvisited == [visited |-> FALSE, dead |-> FALSE, status |-> Unread, weak |-> Unread]

(***************************************************************************)
(* cas_loop.h: cas_loop_return_value and the try_cas / try_cas_loop entry  *)
(* points.                                                                 *)
(***************************************************************************)
\* The threads that call into cas_loop.h.
Callers == {1, 2}

Values == 0..MaxVal

\* The continue_fn / update_fn pairs the callers pass.
Always == [k |-> "always", to |-> 0]

Below(v) == [k |-> "below", to |-> v]

Inc == [k |-> "inc", to |-> 0]

SetTo(v) == [k |-> "set", to |-> v]

Programs == {<<Always, Inc>>} \cup {<<Below(v), SetTo(v)>> : v \in Values}

\* Variant: the continue predicate never vetoes.
ContinueFn_always(c, curr) == TRUE

\* continue_fn(curr)
ContinueFn(c, curr) == IF c.k = "always" THEN TRUE ELSE curr < c.to

\* update_fn(curr), in the word's width
UpdateFn(u, curr) == IF u.k = "inc" THEN (curr + 1) % (MaxVal + 1) ELSE u.to

InitCas ==
  /\ a = 0
  /\ cas_pc = [p \in Callers |-> "idle"]
  /\ cas_kind = [p \in Callers |-> "none"]
  /\ cas_cont = [p \in Callers |-> Always]
  /\ cas_upd = [p \in Callers |-> Inc]
  /\ tries_arg = [p \in Callers |-> 0]
  /\ max_tries = [p \in Callers |-> 0]
  /\ prior_value = [p \in Callers |-> 0]
  /\ new_value = [p \in Callers |-> 0]
  /\ succeeded = [p \in Callers |-> FALSE]
  /\ n_cas = [p \in Callers |-> 0]
  /\ n_upd = [p \in Callers |-> 0]
  /\ first_obs = [p \in Callers |-> 0]
  /\ last_obs = [p \in Callers |-> 0]
  /\ n_interf = 0
  /\ change_from = [p \in Callers |-> 0]

\* try_cas / try_cas_loop(a, continue_fn, update_fn) /
\* try_cas_loop(a, max_tries, continue_fn, update_fn): a fresh
\* cas_loop_return_value (succeeded = false, new_value not initialized: g),
\* then first_try's load, prior_value = a.
CasCall(p, kind, K, c, u, g) ==
  /\ cas_pc[p] = "idle"
  /\ cas_pc' = [cas_pc EXCEPT ![p] = "try"]
  /\ cas_kind' = [cas_kind EXCEPT ![p] = kind]
  /\ cas_cont' = [cas_cont EXCEPT ![p] = c]
  /\ cas_upd' = [cas_upd EXCEPT ![p] = u]
  /\ tries_arg' = [tries_arg EXCEPT ![p] = K]
  /\ max_tries' = [max_tries EXCEPT ![p] = K]
  /\ prior_value' = [prior_value EXCEPT ![p] = a]
  /\ new_value' = [new_value EXCEPT ![p] = g]
  /\ succeeded' = [succeeded EXCEPT ![p] = FALSE]
  /\ first_obs' = [first_obs EXCEPT ![p] = a]
  /\ last_obs' = [last_obs EXCEPT ![p] = a]
  /\ UNCHANGED <<noncas, a, n_cas, n_upd, n_interf, change_from>>

\* Variant: the bounding lambda lets one attempt too many through.
BoundedContinue_off_by_one(mt, ok) == mt >= 0 /\ ok

\* [&](const T &curr) { return max_tries-- > 0 && continue_fn(curr); }
BoundedContinue(mt, ok) == mt > 0 /\ ok

\* The continue predicate try_once evaluates on prior_value.
Continues(p) ==
  IF cas_kind[p] = "bounded"
    THEN BoundedContinue(max_tries[p], ContinueFn(cas_cont[p], prior_value[p]))
    ELSE ContinueFn(cas_cont[p], prior_value[p])

\* Variant: try_once goes on to the compare-and-swap after a veto.
Vetoed_never(go) == FALSE

\* succeeded = continue_fn(_cpv()); if (!succeeded) return true;
Vetoed(go) == ~go

\* Variant: a failed compare-and-swap does not reload prior_value.
Expected_after_failure_stale(old, cur) == old

\* compare_exchange_strong stores the value found into `expected` on failure.
Expected_after_failure(old, cur) == cur

\* Variant: once() goes on to try_more like loop().
Retries_always(kind) == TRUE

\* loop() goes on to try_more after a failed first_try; once() does not.
Retries(kind) == kind # "once"

\* try_once: the veto test, then _update and compare_exchange_strong.
CasTry(p) ==
  /\ cas_pc[p] = "try"
  /\ max_tries' = [max_tries EXCEPT ![p] =
                     IF cas_kind[p] = "bounded" THEN @ - 1 ELSE @]
  /\ IF Vetoed(Continues(p))
       THEN /\ succeeded' = [succeeded EXCEPT ![p] = FALSE]
            /\ cas_pc' = [cas_pc EXCEPT ![p] = "done"]
            /\ UNCHANGED <<a, prior_value, new_value, n_cas, n_upd, last_obs>>
       ELSE LET nv == UpdateFn(cas_upd[p], prior_value[p]) IN
            /\ new_value' = [new_value EXCEPT ![p] = nv]
            /\ n_upd' = [n_upd EXCEPT ![p] = @ + 1]
            /\ n_cas' = [n_cas EXCEPT ![p] = @ + 1]
            /\ last_obs' = [last_obs EXCEPT ![p] = a]
            /\ IF a = prior_value[p]
                 THEN /\ a' = nv
                      /\ succeeded' = [succeeded EXCEPT ![p] = TRUE]
                      /\ cas_pc' = [cas_pc EXCEPT ![p] = "done"]
                      /\ UNCHANGED prior_value
                 ELSE /\ prior_value' = [prior_value EXCEPT ![p] =
                                           Expected_after_failure(@, a)]
                      /\ succeeded' = [succeeded EXCEPT ![p] = FALSE]
                      /\ cas_pc' = [cas_pc EXCEPT ![p] =
                                      IF Retries(cas_kind[p]) THEN "try" ELSE "done"]
                      /\ UNCHANGED a
  /\ UNCHANGED <<noncas, cas_kind, cas_cont, cas_upd, tries_arg, first_obs, n_interf,
                 change_from>>

\* try_change_value(a, from, to): a fresh cas_loop_return_value, then change:
\* prior_value = from; new_value = to; one compare_exchange_strong.
ChangeCall(p, from, to) ==
  /\ cas_pc[p] = "idle"
  /\ cas_pc' = [cas_pc EXCEPT ![p] = "done"]
  /\ cas_kind' = [cas_kind EXCEPT ![p] = "change"]
  /\ change_from' = [change_from EXCEPT ![p] = from]
  /\ new_value' = [new_value EXCEPT ![p] = to]
  /\ n_cas' = [n_cas EXCEPT ![p] = @ + 1]
  /\ first_obs' = [first_obs EXCEPT ![p] = a]
  /\ last_obs' = [last_obs EXCEPT ![p] = a]
  /\ IF a = from
       THEN /\ a' = to
            /\ succeeded' = [succeeded EXCEPT ![p] = TRUE]
            /\ prior_value' = [prior_value EXCEPT ![p] = from]
       ELSE /\ prior_value' = [prior_value EXCEPT ![p] = Expected_after_failure(from, a)]
            /\ succeeded' = [succeeded EXCEPT ![p] = FALSE]
            /\ UNCHANGED a
  /\ UNCHANGED <<noncas, cas_cont, cas_upd, tries_arg, max_tries, n_upd, n_interf>>

\* T resulting_value() const { return succeeded ? new_value : prior_value; }
resulting_value(p) == IF succeeded[p] THEN new_value[p] ELSE prior_value[p]

\* Another writer stores to the same word.
Interfere(v) ==
  /\ n_interf < MaxInterfere
  /\ v # a
  /\ a' = v
  /\ n_interf' = n_interf + 1
  /\ UNCHANGED <<noncas, cas_pc, cas_kind, cas_cont, cas_upd, tries_arg, max_tries,
                 prior_value, new_value, succeeded, n_cas, n_upd, first_obs,
                 last_obs, change_from>>

Caller(p) ==
  \/ \E pr \in Programs, g \in Values :
       \/ CasCall(p, "once", 0, pr[1], pr[2], g)
       \/ CasCall(p, "loop", 0, pr[1], pr[2], g)
       \/ \E K \in 0..MaxTries : CasCall(p, "bounded", K, pr[1], pr[2], g)
  \/ \E from, to \in Values : ChangeCall(p, from, to)
  \/ CasTry(p)

\* increment_to_at_least(a, to)
IncrementToAtLeast(p, to) ==
  \E g \in Values : CasCall(p, "loop", 0, Below(to), SetTo(to), g)

\* The call has returned its cas_loop_return_value; the caller may call again.
CasReturn(p) ==
  /\ cas_pc[p] = "done"
  /\ cas_pc' = [cas_pc EXCEPT ![p] = "idle"]
  /\ n_cas' = [n_cas EXCEPT ![p] = 0]
  /\ n_upd' = [n_upd EXCEPT ![p] = 0]
  /\ UNCHANGED <<noncas, a, cas_kind, cas_cont, cas_upd, tries_arg, max_tries,
                 prior_value, new_value, succeeded, first_obs, last_obs, n_interf,
                 change_from>>

\* Concurrent callers of increment_to_at_least on one word.
NextInc ==
  \E p \in Callers :
    \/ \E to \in Values : IncrementToAtLeast(p, to)
    \/ CasTry(p)
    \/ CasReturn(p)

\* One call of caller 1; every other access to the word is an arbitrary
\* store by another writer.
NextCas ==
  \/ Caller(1)
  \/ \E v \in Values : Interfere(v)

(***************************************************************************)
(* cas_loop.h: process_onceish, random-access iterators.                   *)
(***************************************************************************)
\* Indices of the elements a sequence can have.
Elems == 0..(MaxVal - 1)

InitOnceish ==
  /\ po_ready = FALSE
  /\ po_n = 0
  /\ po_a0 = 0
  /\ po_pc = [p \in Callers |-> "idle"]
  /\ po_next = [p \in Callers |-> 0]
  /\ applied = [i \in Elems |-> 0]
  /\ applied_by = [p \in Callers |-> {}]

\* What process_onceish leaves alone in cas_loop_return_value and the word.
pocas == <<cas_pc, cas_kind, cas_cont, cas_upd, tries_arg, max_tries,
           prior_value, new_value, succeeded, n_cas, n_upd, first_obs,
           last_obs, n_interf, change_from>>

\* The owner sets up a sequence of n elements and the counter, at v.
PoSetup(n, v) ==
  /\ ~po_ready
  /\ \A p \in Callers : cas_pc[p] = "idle"
  /\ v <= n
  /\ po_ready' = TRUE
  /\ po_n' = n
  /\ po_a0' = v
  /\ a' = v
  /\ UNCHANGED <<hsvars, stvars, pocas, po_pc, po_next, applied, applied_by>>

\* T next = a;
PoStart(p) ==
  /\ po_ready
  /\ po_pc[p] = "idle"
  /\ po_next' = [po_next EXCEPT ![p] = a]
  /\ po_pc' = [po_pc EXCEPT ![p] = "test"]
  /\ UNCHANGED <<hsvars, stvars, casvars, po_ready, po_n, po_a0, applied, applied_by>>

\* Variant: the loop stops one element early.
PoInRange_one_short(nx, n) == nx + 1 < n

\* p = from + next; p < to
PoInRange(nx, n) == nx < n

\* The loop condition, once the temporary of the previous iteration is gone.
PoTest(p) ==
  /\ po_pc[p] = "test"
  /\ cas_pc[p] = "idle"
  /\ po_pc' = [po_pc EXCEPT ![p] = IF PoInRange(po_next[p], po_n) THEN "fn"
                                     ELSE "returned"]
  /\ UNCHANGED <<hsvars, stvars, casvars, po_ready, po_n, po_a0, po_next, applied,
                 applied_by>>

\* fn(*p)
PoFn(p) ==
  /\ po_pc[p] = "fn"
  /\ applied' = [applied EXCEPT ![po_next[p]] = @ + 1]
  /\ applied_by' = [applied_by EXCEPT ![p] = @ \cup {po_next[p]}]
  /\ po_pc' = [po_pc EXCEPT ![p] = "cas"]
  /\ UNCHANGED <<hsvars, stvars, casvars, po_ready, po_n, po_a0, po_next>>

\* try_change_value(a, next, next + 1)
PoChange(p) ==
  /\ po_pc[p] = "cas"
  /\ ChangeCall(p, po_next[p], po_next[p] + 1)

\* next = (...).resulting_value();
PoResult(p) ==
  /\ po_pc[p] = "cas"
  /\ cas_pc[p] = "done"
  /\ po_next' = [po_next EXCEPT ![p] = resulting_value(p)]
  /\ po_pc' = [po_pc EXCEPT ![p] = "test"]
  /\ UNCHANGED <<hsvars, stvars, casvars, po_ready, po_n, po_a0, applied, applied_by>>

\* The temporary cas_loop_return_value of the iteration is destroyed.
PoDrop(p) ==
  /\ po_pc[p] = "test"
  /\ CasReturn(p)

ProcessOnceish(p) ==
  \/ PoStart(p)
  \/ PoTest(p)
  \/ PoFn(p)
  \/ PoChange(p)
  \/ PoResult(p)
  \/ PoDrop(p)

\* Concurrent callers of process_onceish on one sequence and one counter.
NextOnceish ==
  \/ \E n \in Values : \E v \in 0..n : PoSetup(n, v)
  \/ \E p \in Callers : ProcessOnceish(p)

(***************************************************************************)
(* lock_free_stack.h: lf_stack over a versioned head.                      *)
(***************************************************************************)
\* The threads operating on the stack.
Procs == {1, 2}

Nodes == 1..NNodes

\* nullptr
Null == 0

\* versioned<pointer<entry>>::inc_and_set(p): the pointer replaced, the
\* version incremented, in one word.
IncAndSet(hd, ptr) == [ptr |-> ptr, ver |-> hd.ver + 1]

InitStack ==
  /\ st_head = [ptr |-> Null, ver |-> 0]
  /\ st_next = [n \in Nodes |-> Null]
  /\ st_free = Nodes
  /\ owned = [p \in Procs |-> {}]
  /\ s_pc = [p \in Procs |-> "idle"]
  /\ s_node = [p \in Procs |-> Null]
  /\ s_prior = [p \in Procs |-> [ptr |-> Null, ver |-> 0]]
  /\ s_new = [p \in Procs |-> Null]
  /\ s_ret = [p \in Procs |-> Null]
  /\ pushes = [n \in Nodes |-> 0]
  /\ pops = [n \in Nodes |-> 0]
  /\ n_ops = 0
  /\ s_end = [p \in Procs |-> Null]
  /\ temp = [p \in Procs |-> [ptr |-> Null, ver |-> 0]]
  /\ unlinks = [n \in Nodes |-> 0]
  /\ destroyed = [n \in Nodes |-> 0]

\* allocate(args...): a fresh detached entry, its next set to nullptr.
Allocate(p, n) ==
  /\ s_pc[p] = "idle"
  /\ n \in st_free
  /\ st_free' = st_free \ {n}
  /\ st_next' = [st_next EXCEPT ![n] = Null]
  /\ owned' = [owned EXCEPT ![p] = @ \cup {n}]
  /\ UNCHANGED <<nonst, clrvars, st_head, s_pc, s_node, s_prior, s_new, s_ret, pushes, pops, n_ops>>

\* Variant: the compare-and-swap compares the raw pointers only.
HeadMatches_pointer_only(cur, expected) == cur.ptr = expected.ptr

\* compare_exchange_strong on the whole versioned word.
HeadMatches(cur, expected) == cur = expected

\* Variant: a failed compare-and-swap leaves the expected value as it was.
ReloadedHead_stale(expected, cur) == expected

\* A failed compare_exchange_strong stores the value it found into the
\* expected value (prior_value), which the next round works on.
ReloadedHead(expected, cur) == cur

\* Variant: push does not thread the old head onto the entry.
PushLink_dropped(hd) == Null

\* push's update function: e->next = h;
PushLink(hd) == hd.ptr

\* Variant: push installs the entry without incrementing the version.
PushNewHead_no_inc(hd, e) == [ptr |-> e, ver |-> hd.ver]

\* push's update function: e->next = h; h.inc_and_set(e); return h;
PushNewHead(hd, e) == IncAndSet(hd, e)

\* Variant: pop leaves the popped entry at the head.
PopNewHead_not_advanced(hd, nxt) == IncAndSet(hd, hd.ptr)

\* pop's update function: ret = &(h->value); h.inc_and_set(h->next); return h;
PopNewHead(hd, nxt) == IncAndSet(hd, nxt)

\* push(p): the entry recovered from the value pointer, then the cas loop's
\* first load of _head.
PushStart(p, n) ==
  /\ s_pc[p] = "idle"
  /\ n_ops < MaxOps
  /\ n \in owned[p]
  /\ n_ops' = n_ops + 1
  /\ s_node' = [s_node EXCEPT ![p] = n]
  /\ s_prior' = [s_prior EXCEPT ![p] = st_head]
  /\ s_pc' = [s_pc EXCEPT ![p] = "push_try"]
  /\ UNCHANGED <<nonst, clrvars, st_head, st_next, st_free, owned, s_new, s_ret, pushes, pops>>

\* One round of the cas loop in push: the update function links e in front
\* of the observed head, then the compare-and-swap; a failure reloads the
\* observed head.
PushTry(p) ==
  /\ s_pc[p] = "push_try"
  /\ st_next' = [st_next EXCEPT ![s_node[p]] = PushLink(s_prior[p])]
  /\ IF HeadMatches(st_head, s_prior[p])
       THEN /\ st_head' = PushNewHead(s_prior[p], s_node[p])
            /\ owned' = [owned EXCEPT ![p] = @ \ {s_node[p]}]
            /\ pushes' = [pushes EXCEPT ![s_node[p]] = @ + 1]
            /\ s_pc' = [s_pc EXCEPT ![p] = "idle"]
            /\ UNCHANGED s_prior
       ELSE /\ s_prior' = [s_prior EXCEPT ![p] = ReloadedHead(@, st_head)]
            /\ UNCHANGED <<st_head, owned, pushes, s_pc>>
  /\ UNCHANGED <<nonst, clrvars, st_free, s_node, s_new, s_ret, pops, n_ops>>

\* Variant: pop goes round the loop again on a null head.
PopAfterLoad_retries_on_null(hd) == IF hd.ptr = Null THEN "pop_cas" ELSE "pop_next"

\* Where pop goes with an observed head: the continue function vetoes on a
\* null head (ret = nullptr), else the update function runs.
PopAfterLoad(hd) == IF hd.ptr = Null THEN "idle" ELSE "pop_next"

\* pop(ret): the cas loop's first load of _head and the continue function.
PopStart(p) ==
  /\ s_pc[p] = "idle"
  /\ n_ops < MaxOps
  /\ n_ops' = n_ops + 1
  /\ s_prior' = [s_prior EXCEPT ![p] = st_head]
  /\ s_pc' = [s_pc EXCEPT ![p] = PopAfterLoad(st_head)]
  /\ s_ret' = [s_ret EXCEPT ![p] = Null]
  /\ UNCHANGED <<nonst, clrvars, st_head, st_next, st_free, owned, s_node, s_new, pushes, pops>>

\* What a read of n->next can return: the field, or any pointer when the
\* entry has been deallocated and not allocated again.
ReadNext(n) == IF n \in st_free THEN Nodes \cup {Null} ELSE {st_next[n]}

\* pop's update function: ret = &(h->value) and the read of h->next.
PopNext(p) ==
  /\ s_pc[p] = "pop_next"
  /\ s_ret' = [s_ret EXCEPT ![p] = s_prior[p].ptr]
  /\ \E nxt \in ReadNext(s_prior[p].ptr) : s_new' = [s_new EXCEPT ![p] = nxt]
  /\ s_pc' = [s_pc EXCEPT ![p] = "pop_cas"]
  /\ UNCHANGED <<nonst, clrvars, st_head, st_next, st_free, owned, s_node, s_prior, pushes, pops, n_ops>>

\* pop's compare-and-swap; a failure reloads the observed head and the
\* continue function runs on it.
PopCas(p) ==
  /\ s_pc[p] = "pop_cas"
  /\ IF HeadMatches(st_head, s_prior[p])
       THEN /\ st_head' = PopNewHead(s_prior[p], s_new[p])
            /\ owned' = [owned EXCEPT ![p] = @ \cup {s_ret[p]}]
            /\ pops' = [pops EXCEPT ![s_ret[p]] = @ + 1]
            /\ s_pc' = [s_pc EXCEPT ![p] = "idle"]
            /\ UNCHANGED <<s_prior, s_ret>>
       ELSE /\ s_prior' = [s_prior EXCEPT ![p] = ReloadedHead(@, st_head)]
            /\ s_pc' = [s_pc EXCEPT ![p] = PopAfterLoad(st_head)]
            /\ s_ret' = [s_ret EXCEPT ![p] = IF st_head.ptr = Null THEN Null ELSE @]
            /\ UNCHANGED <<st_head, owned, pops>>
  /\ UNCHANGED <<nonst, clrvars, st_next, st_free, s_node, s_new, pushes, n_ops>>

StackProc(p) ==
  \/ \E n \in Nodes : Allocate(p, n)
  \/ \E n \in Nodes : PushStart(p, n)
  \/ PushTry(p)
  \/ PopStart(p)
  \/ PopNext(p)
  \/ PopCas(p)

NextStack == \E p \in Procs : StackProc(p)

RECURSIVE Path(_, _, _)
\* The entries from b to e along next, e included; <<>> when e is not met
\* within `fuel` links.
Path(b, e, fuel) ==
  IF b = Null \/ fuel = 0 THEN <<>>
  ELSE IF b = e THEN <<b>>
  ELSE LET rest == Path(st_next[b], e, fuel - 1) IN
       IF rest = <<>> THEN <<>> ELSE <<b>> \o rest

\* The entries of the chain begin..end.
Segment(b, e) == LET path == Path(b, e, NNodes) IN {path[i] : i \in 1..Len(path)}

\* begin..end is an already-linked chain of detached entries the caller holds.
OwnedChain(p, b, e) == Segment(b, e) # {} /\ Segment(b, e) \subseteq owned[p]

\* push(begin, end): the entries b and e recovered from the value pointers,
\* then the cas loop's first load of _head.
BulkPushStart(p, b, e) ==
  /\ s_pc[p] = "idle"
  /\ n_ops < MaxOps
  /\ OwnedChain(p, b, e)
  /\ n_ops' = n_ops + 1
  /\ s_node' = [s_node EXCEPT ![p] = b]
  /\ s_end' = [s_end EXCEPT ![p] = e]
  /\ s_prior' = [s_prior EXCEPT ![p] = st_head]
  /\ s_pc' = [s_pc EXCEPT ![p] = "bpush_try"]
  /\ UNCHANGED <<nonst, st_head, st_next, st_free, owned, s_new, s_ret, pushes, pops,
                 temp, unlinks, destroyed>>

\* Variant: push(begin, end) installs end instead of begin.
BulkHead_end(b, e) == e

\* The entry push(begin, end) makes the head: h.inc_and_set(b);
BulkHead(b, e) == b

\* One round of the cas loop in push(begin, end): e->next = h;
\* h.inc_and_set(b); then the compare-and-swap.
BulkPushTry(p) ==
  /\ s_pc[p] = "bpush_try"
  /\ st_next' = [st_next EXCEPT ![s_end[p]] = PushLink(s_prior[p])]
  /\ IF HeadMatches(st_head, s_prior[p])
       THEN /\ st_head' = PushNewHead(s_prior[p], BulkHead(s_node[p], s_end[p]))
            /\ owned' = [owned EXCEPT ![p] = @ \ Segment(s_node[p], s_end[p])]
            /\ pushes' = [n \in Nodes |->
                            IF n \in Segment(s_node[p], s_end[p])
                              THEN pushes[n] + 1 ELSE pushes[n]]
            /\ s_pc' = [s_pc EXCEPT ![p] = "idle"]
            /\ UNCHANGED s_prior
       ELSE /\ s_prior' = [s_prior EXCEPT ![p] = ReloadedHead(@, st_head)]
            /\ UNCHANGED <<st_head, owned, pushes, s_pc>>
  /\ UNCHANGED <<nonst, clrvars, st_free, s_node, s_new, s_ret, pops, n_ops>>

\* atomic_pointer::inc_and_change(expected, desired): one compare-and-swap
\* from expected to the desired pointer with expected's version incremented.
IncAndChange(expected, desired) == IncAndSet(expected, desired)

\* Variant: clear leaves the loop when its compare-and-swap fails.
ClearAfterLoad_gives_up(t) == "idle"

\* while (temp != nullptr)
ClearAfterLoad(t) == IF t.ptr = Null THEN "idle" ELSE "clr_next"

\* clear(): temp = _head.contents();
ClearStart(p) ==
  /\ s_pc[p] = "idle"
  /\ n_ops < MaxOps
  /\ n_ops' = n_ops + 1
  /\ temp' = [temp EXCEPT ![p] = st_head]
  /\ s_pc' = [s_pc EXCEPT ![p] = IF st_head.ptr = Null THEN "idle" ELSE "clr_next"]
  /\ UNCHANGED <<nonst, st_head, st_next, st_free, owned, s_node, s_prior, s_new, s_ret,
                 pushes, pops, s_end, unlinks, destroyed>>

\* The argument temp->next of inc_and_change.
ClearNext(p) ==
  /\ s_pc[p] = "clr_next"
  /\ \E nxt \in ReadNext(temp[p].ptr) : s_new' = [s_new EXCEPT ![p] = nxt]
  /\ s_pc' = [s_pc EXCEPT ![p] = "clr_cas"]
  /\ UNCHANGED <<nonst, clrvars, st_head, st_next, st_free, owned, s_node, s_prior, s_ret,
                 pushes, pops, n_ops>>

\* ret = _head.inc_and_change(temp, temp->next); on failure
\* temp = ret.prior_value and the loop condition.
ClearCas(p) ==
  /\ s_pc[p] = "clr_cas"
  /\ IF HeadMatches(st_head, temp[p])
       THEN /\ st_head' = IncAndChange(temp[p], s_new[p])
            /\ owned' = [owned EXCEPT ![p] = @ \cup {temp[p].ptr}]
            /\ unlinks' = [unlinks EXCEPT ![temp[p].ptr] = @ + 1]
            /\ s_pc' = [s_pc EXCEPT ![p] = "clr_free"]
            /\ UNCHANGED temp
       ELSE /\ temp' = [temp EXCEPT ![p] = ReloadedHead(@, st_head)]
            /\ s_pc' = [s_pc EXCEPT ![p] = ClearAfterLoad(st_head)]
            /\ UNCHANGED <<st_head, owned, unlinks>>
  /\ UNCHANGED <<nonst, st_next, st_free, s_node, s_prior, s_new, s_ret, pushes, pops,
                 n_ops, s_end, destroyed>>

\* The versions temp can carry after temp = n, the assignment of a plain
\* pointer to a versioned_head_t: a fresh version, the one temp had, or the
\* one the successful inc_and_change installed.
AssignedVersions(t) == {0, t.ver, t.ver + 1}

\* After a successful unlink: temp->value.~T(); n = temp->next;
\* alloc.deallocate(temp, 1); temp = n; and the loop condition.
ClearFree(p) ==
  /\ s_pc[p] = "clr_free"
  /\ destroyed' = [destroyed EXCEPT ![temp[p].ptr] = @ + 1]
  /\ owned' = [owned EXCEPT ![p] = @ \ {temp[p].ptr}]
  /\ st_free' = st_free \cup {temp[p].ptr}
  /\ \E v \in AssignedVersions(temp[p]) :
       LET n == [ptr |-> st_next[temp[p].ptr], ver |-> v] IN
       /\ temp' = [temp EXCEPT ![p] = n]
       /\ s_pc' = [s_pc EXCEPT ![p] = ClearAfterLoad(n)]
  /\ UNCHANGED <<nonst, st_head, st_next, s_node, s_prior, s_new, s_ret, pushes, pops,
                 n_ops, s_end, unlinks>>

\* The operations entered while fewer than MaxAllOps have been started.
PushEnter(p, n) == n_ops < MaxAllOps /\ PushStart(p, n)

PopEnter(p) == n_ops < MaxAllOps /\ PopStart(p)

BulkPushEnter(p, b, e) == n_ops < MaxAllOps /\ BulkPushStart(p, b, e)

ClearEnter(p) == n_ops < MaxAllOps /\ ClearStart(p)

StackAllProc(p) ==
  \/ \E n \in Nodes : Allocate(p, n)
  \/ \E n \in Nodes : PushEnter(p, n)
  \/ PushTry(p)
  \/ PopEnter(p)
  \/ PopNext(p)
  \/ PopCas(p)
  \/ \E b, e \in Nodes : BulkPushEnter(p, b, e)
  \/ BulkPushTry(p)
  \/ ClearEnter(p)
  \/ ClearNext(p)
  \/ ClearCas(p)
  \/ ClearFree(p)

\* Threads pushing single entries and chains, and popping.
SpliceProc(p) ==
  \/ StackProc(p)
  \/ \E b, e \in Nodes : BulkPushStart(p, b, e)
  \/ BulkPushTry(p)

NextSplice == \E p \in Procs : SpliceProc(p)

NextStackAll == \E p \in Procs : StackAllProc(p)

(***************************************************************************)
(* in_memory_thread_struct: constructor, marked_dead, mark_dead.           *)
(***************************************************************************)
\* Variant: the liveness flag is never consulted.
marked_dead_ignored(t) == FALSE

marked_dead(t) == live[t] = Dead

\* thread_struct_list.head() / next(): read-only walk of the registry.
head == IF thread_struct_list = <<>> THEN NoThread ELSE Head(thread_struct_list)

IndexOf(t) == CHOOSE i \in 1..Len(thread_struct_list) : thread_struct_list[i] = t

next(t) ==
  IF IndexOf(t) = Len(thread_struct_list) THEN NoThread
  ELSE thread_struct_list[IndexOf(t) + 1]

InitHS ==
  /\ thread_struct_list = [i \in 1..NThreads |-> i]
  /\ status_idx = [t \in Threads |-> sigInit]
  /\ weak_signal = [t \in Threads |-> Working]
  /\ live = [t \in Threads |-> Live]
  /\ mark_signal_disabled = [t \in Threads |-> FALSE]
  /\ sweep_signal_disabled = [t \in Threads |-> FALSE]
  /\ tpc = [t \in Threads |-> "run"]
  /\ sigq = [t \in Threads |-> {}]
  /\ request_gc_termination = FALSE
  /\ cpc = "idle"
  /\ h = NoThread
  /\ sig = sigInit
  /\ doWeakCheck = FALSE
  /\ r_status = Unread
  /\ aborted = FALSE
  /\ sent = [t \in Threads |-> 0]
  /\ seen = [t \in Threads |-> Unvisited]
  /\ respun = [t \in Threads |-> FALSE]

recvars == <<status_idx, weak_signal, live, mark_signal_disabled,
             sweep_signal_disabled>>
colvars == <<cpc, h, sig, doWeakCheck, r_status, aborted, sent, seen>>
envvars == <<nonhs, thread_struct_list, respun, tpc, request_gc_termination>>

\* Variant: death is published by the first store of mark_dead().
MarkDead1_live_first(t) ==
  /\ tpc[t] = "run"
  /\ live' = [live EXCEPT ![t] = Dead]
  /\ tpc' = [tpc EXCEPT ![t] = "md_sweep"]
  /\ UNCHANGED <<nonhs, thread_struct_list, respun, status_idx, weak_signal,
                 mark_signal_disabled, sweep_signal_disabled, sigq,
                 request_gc_termination, colvars>>

\* mark_dead(), first store: mark_signal_disabled = true.
MarkDead1(t) ==
  /\ tpc[t] = "run"
  /\ mark_signal_disabled' = [mark_signal_disabled EXCEPT ![t] = TRUE]
  /\ tpc' = [tpc EXCEPT ![t] = "md_sweep"]
  /\ UNCHANGED <<nonhs, thread_struct_list, respun, status_idx, weak_signal, live,
                 sweep_signal_disabled, sigq, request_gc_termination, colvars>>

\* mark_dead(), second store: sweep_signal_disabled = true.
MarkDead2(t) ==
  /\ tpc[t] = "md_sweep"
  /\ sweep_signal_disabled' = [sweep_signal_disabled EXCEPT ![t] = TRUE]
  /\ tpc' = [tpc EXCEPT ![t] = "md_live"]
  /\ UNCHANGED <<nonhs, thread_struct_list, respun, status_idx, weak_signal, live,
                 mark_signal_disabled, sigq, request_gc_termination, colvars>>

\* mark_dead(), third store: live = Alive::Dead.
MarkDead3(t) ==
  /\ tpc[t] = "md_live"
  /\ live' = [live EXCEPT ![t] = Dead]
  /\ tpc' = [tpc EXCEPT ![t] = "dead"]
  /\ UNCHANGED <<nonhs, thread_struct_list, respun, status_idx, weak_signal,
                 mark_signal_disabled, sweep_signal_disabled, sigq,
                 request_gc_termination, colvars>>


(***************************************************************************)
(* Deferred signals: do_deferred_async_signal, do_deferred_sweep_signal.   *)
(***************************************************************************)
DeferredSig(kind) == IF kind = "async" THEN sigDeferredAsync ELSE sigDeferredSweep

DeferredTarget(kind) == IF kind = "async" THEN sigAsync ELSE sigSweep

DeferredKind(t) == IF tpc[t] \in {"da_check", "da_yield"} THEN "async" ELSE "sweep"

DeferredCheckPc(kind) == IF kind = "async" THEN "da_check" ELSE "ds_check"

DeferredYieldPc(kind) == IF kind = "async" THEN "da_yield" ELSE "ds_yield"

\* Variant: the deferred spin also gives up on the termination flag.
DeferredSpins_polling(t, kind) ==
  status_idx[t] # DeferredTarget(kind) /\ ~request_gc_termination

\* Variant: the spin waits for the deferred phase it queued.
DeferredSpins_deferred_phase(t, kind) == status_idx[t] # DeferredSig(kind)

\* The spin condition of do_deferred_*_signal: status() != target.
DeferredSpins(t, kind) == status_idx[t] # DeferredTarget(kind)

\* pthread_sigqueue(thread_struct.pthread, SIGRTMIN, sigDeferred*) to itself.
DoDeferredSignal(t, kind) ==
  /\ tpc[t] = "run"
  /\ sigq' = [sigq EXCEPT ![t] = @ \cup {DeferredSig(kind)}]
  /\ tpc' = [tpc EXCEPT ![t] = DeferredCheckPc(kind)]
  /\ UNCHANGED <<nonhs, thread_struct_list, respun, recvars, request_gc_termination, colvars>>

\* while (status_idx.load().status() != target)
DeferredCheck(t) ==
  /\ tpc[t] \in {"da_check", "ds_check"}
  /\ tpc' = [tpc EXCEPT ![t] = IF DeferredSpins(t, DeferredKind(t))
                                 THEN DeferredYieldPc(DeferredKind(t))
                                 ELSE "run"]
  /\ UNCHANGED <<nonhs, thread_struct_list, respun, recvars, sigq, request_gc_termination, colvars>>

\* pthread_yield(), then back to the loop condition.
DeferredYield(t) ==
  /\ tpc[t] \in {"da_yield", "ds_yield"}
  /\ tpc' = [tpc EXCEPT ![t] = DeferredCheckPc(DeferredKind(t))]
  /\ respun' = [respun EXCEPT ![t] = @ \/ request_gc_termination]
  /\ UNCHANGED <<nonhs, thread_struct_list, recvars, sigq, request_gc_termination, colvars>>

(***************************************************************************)
(* The mutator side that gc_handshake.h declares but does not define: the  *)
(* SIGRTMIN handler, the weak barrier, and the termination request.        *)
(***************************************************************************)
\* The phase a signal payload stands for: a deferred payload is handled as
\* the real phase.
RealPhase(s) ==
  IF s = sigDeferredAsync THEN sigAsync
  ELSE IF s = sigDeferredSweep THEN sigSweep
  ELSE s

\* The handler runs on the receiving thread and publishes the phase in its
\* own status.
HandleSignal(t) ==
  /\ tpc[t] # "dead"
  /\ \E s \in sigq[t] :
       /\ sigq' = [sigq EXCEPT ![t] = @ \ {s}]
       /\ status_idx' = [status_idx EXCEPT ![t] = RealPhase(s)]
  /\ UNCHANGED <<envvars, weak_signal, live, mark_signal_disabled,
                 sweep_signal_disabled, colvars>>

\* A thread parks in a GC-safe region.
EnterBarrier(t) ==
  /\ tpc[t] = "run"
  /\ weak_signal[t] = Working
  /\ weak_signal' = [weak_signal EXCEPT ![t] = InBarrier]
  /\ UNCHANGED <<envvars, status_idx, live, mark_signal_disabled,
                 sweep_signal_disabled, sigq, colvars>>

\* A thread leaves the GC-safe region (from InBarrier or from DoHandshake).
LeaveBarrier(t) ==
  /\ tpc[t] = "run"
  /\ weak_signal[t] # Working
  /\ weak_signal' = [weak_signal EXCEPT ![t] = Working]
  /\ UNCHANGED <<envvars, status_idx, live, mark_signal_disabled,
                 sweep_signal_disabled, sigq, colvars>>

\* An external controller sets request_gc_termination.
RequestTermination ==
  /\ ~request_gc_termination
  /\ request_gc_termination' = TRUE
  /\ UNCHANGED <<nonhs, thread_struct_list, respun, recvars, tpc, sigq, colvars>>

(***************************************************************************)
(* post_handshake                                                          *)
(***************************************************************************)
\* handshake(sig, doWeakCheck): entry, before post_handshake's fence.
StartHandshake(s, w) ==
  /\ cpc = "idle"
  /\ sig' = s
  /\ doWeakCheck' = w
  /\ cpc' = "p_head"
  /\ h' = NoThread
  /\ r_status' = Unread
  /\ aborted' = FALSE
  /\ sent' = [t \in Threads |-> 0]
  /\ seen' = [t \in Threads |-> Unvisited]
  /\ UNCHANGED <<nonhs, thread_struct_list, respun, recvars, tpc, sigq, request_gc_termination>>

\* fence; h = thread_struct_list.head()
PostHead ==
  /\ cpc = "p_head"
  /\ h' = head
  /\ cpc' = IF head = NoThread THEN "w_head" ELSE "p_dead"
  /\ UNCHANGED <<nonhs, thread_struct_list, respun, recvars, tpc, sigq, request_gc_termination,
                 sig, doWeakCheck, r_status, aborted, sent, seen>>

\* Variant: post_handshake ends its walk after the first record.
PostAfter_stops(t) == "w_head"

\* Where post_handshake goes after it is done with record h.
PostAfter(t) == IF next(t) = NoThread THEN "w_head" ELSE "p_dead"

\* Variant: the weak check is made whether or not it was asked for.
PostLive_always_checks(w) == "p_cas"

\* if (doWeakCheck) { weak check } before the signal is sent.
PostLive(w) == IF w THEN "p_cas" ELSE "p_send"

\* if (!h->marked_dead())
PostCheckDead ==
  /\ cpc = "p_dead"
  /\ IF marked_dead(h)
       THEN /\ h' = next(h)
            /\ cpc' = PostAfter(h)
       ELSE /\ h' = h
            /\ cpc' = PostLive(doWeakCheck)
  /\ UNCHANGED <<nonhs, thread_struct_list, respun, recvars, tpc, sigq, request_gc_termination,
                 sig, doWeakCheck, r_status, aborted, sent, seen>>

\* Variant: the weak check stores DoHandshake without comparing.
WeakCas_store(w) == DoHandshake

\* weak_signal.compare_exchange_strong(InBarrier, DoHandshake)
WeakCas(w) == IF w = InBarrier THEN DoHandshake ELSE w

PostWeakCheck ==
  /\ cpc = "p_cas"
  /\ weak_signal' = [weak_signal EXCEPT ![h] = WeakCas(@)]
  /\ cpc' = "p_send"
  /\ UNCHANGED <<nonhs, thread_struct_list, respun, status_idx, live, mark_signal_disabled,
                 sweep_signal_disabled, tpc, sigq, request_gc_termination,
                 h, sig, doWeakCheck, r_status, aborted, sent, seen>>

\* pthread_sigqueue(h->pthread, SIGRTMIN, sigval); h = next(h)
PostSend ==
  /\ cpc = "p_send"
  /\ sigq' = [sigq EXCEPT ![h] = @ \cup {sig}]
  /\ sent' = [sent EXCEPT ![h] = @ + 1]
  /\ h' = next(h)
  /\ cpc' = PostAfter(h)
  /\ UNCHANGED <<nonhs, thread_struct_list, respun, recvars, tpc, request_gc_termination,
                 sig, doWeakCheck, r_status, aborted, seen>>

(***************************************************************************)
(* wait_handshake                                                          *)
(***************************************************************************)
\* h = thread_struct_list.head()
WaitHead ==
  /\ cpc = "w_head"
  /\ h' = head
  /\ cpc' = IF head = NoThread THEN "returned" ELSE "w_dead"
  /\ UNCHANGED <<nonhs, thread_struct_list, respun, recvars, tpc, sigq, request_gc_termination,
                 sig, doWeakCheck, r_status, aborted, sent, seen>>

\* Where wait_handshake goes after it is done with record h.
WaitAfter(t) == IF next(t) = NoThread THEN "returned" ELSE "w_dead"

\* Variant: the status comparison inverted.
StatusNotReached_inverted(st, s) == st = s

\* Variant: the weak-barrier state is not waited for.
WeakPending_ignored(w, wk) == FALSE

\* h->status_idx.load().status() != sig
StatusNotReached(st, s) == st # s

\* Variant: the wait goes on while the record is anywhere in the barrier.
WeakPending_in_barrier(w, wk) == w /\ wk # Working

\* doWeakCheck && h->weak_signal == Weak_signal::DoHandshake
WeakPending(w, wk) == w /\ wk = DoHandshake

\* First conjunct of the spin condition: !h->marked_dead()
WaitCheckDead ==
  /\ cpc = "w_dead"
  /\ IF marked_dead(h)
       THEN /\ seen' = [seen EXCEPT ![h] = [visited |-> TRUE, dead |-> TRUE,
                                             status |-> Unread, weak |-> Unread]]
            /\ h' = next(h)
            /\ cpc' = WaitAfter(h)
       ELSE /\ cpc' = "w_status"
            /\ UNCHANGED <<h, seen>>
  /\ UNCHANGED <<nonhs, thread_struct_list, respun, recvars, tpc, sigq, request_gc_termination,
                 sig, doWeakCheck, r_status, aborted, sent>>

\* Second conjunct, left of ||: the status load.
WaitCheckStatus ==
  /\ cpc = "w_status"
  /\ IF StatusNotReached(status_idx[h], sig)
       THEN /\ cpc' = "w_term"
            /\ UNCHANGED <<h, seen, r_status>>
       ELSE IF doWeakCheck
         THEN /\ cpc' = "w_weak"
              /\ r_status' = status_idx[h]
              /\ UNCHANGED <<h, seen>>
         ELSE /\ seen' = [seen EXCEPT ![h] = [visited |-> TRUE, dead |-> FALSE,
                                               status |-> status_idx[h],
                                               weak |-> Unread]]
              /\ h' = next(h)
              /\ cpc' = WaitAfter(h)
              /\ UNCHANGED r_status
  /\ UNCHANGED <<nonhs, thread_struct_list, respun, recvars, tpc, sigq, request_gc_termination,
                 sig, doWeakCheck, aborted, sent>>

\* Second conjunct, right of ||: the weak_signal load.
WaitCheckWeak ==
  /\ cpc = "w_weak"
  /\ r_status' = Unread
  /\ IF WeakPending(doWeakCheck, weak_signal[h])
       THEN /\ cpc' = "w_term"
            /\ UNCHANGED <<h, seen>>
       ELSE /\ seen' = [seen EXCEPT ![h] = [visited |-> TRUE, dead |-> FALSE,
                                             status |-> r_status,
                                             weak |-> weak_signal[h]]]
            /\ h' = next(h)
            /\ cpc' = WaitAfter(h)
  /\ UNCHANGED <<nonhs, thread_struct_list, respun, recvars, tpc, sigq, request_gc_termination,
                 sig, doWeakCheck, aborted, sent>>

\* Variant: the spin never polls the flag.
TerminationRequested_unpolled == FALSE

\* if (request_gc_termination)
TerminationRequested == request_gc_termination

\* Loop body: cpu_relax(); if (request_gc_termination) return;
WaitPoll ==
  /\ cpc = "w_term"
  /\ IF TerminationRequested
       THEN /\ cpc' = "returned"
            /\ aborted' = TRUE
       ELSE /\ cpc' = "w_dead"
            /\ UNCHANGED aborted
  /\ UNCHANGED <<nonhs, thread_struct_list, respun, recvars, tpc, sigq, request_gc_termination,
                 h, sig, doWeakCheck, r_status, sent, seen>>

Collector ==
  \/ \E s \in HandshakeSigs, w \in BOOLEAN : StartHandshake(s, w)
  \/ PostHead
  \/ PostCheckDead
  \/ PostWeakCheck
  \/ PostSend
  \/ WaitHead
  \/ WaitCheckDead
  \/ WaitCheckStatus
  \/ WaitCheckWeak
  \/ WaitPoll

Mutator(t) ==
  \/ MarkDead1(t)
  \/ MarkDead2(t)
  \/ MarkDead3(t)
  \/ HandleSignal(t)
  \/ EnterBarrier(t)
  \/ LeaveBarrier(t)

Deferring(t) ==
  \/ \E kind \in {"async", "sweep"} : DoDeferredSignal(t, kind)
  \/ DeferredCheck(t)
  \/ DeferredYield(t)
  \/ HandleSignal(t)

Init == InitHS /\ InitCas /\ InitStack /\ InitOnceish

\* One handshake() call by the collector among mutators that handle signals,
\* use the weak barrier and exit.
Next ==
  \/ Collector
  \/ \E t \in Threads : Mutator(t)
  \/ RequestTermination


Spec == Init /\ [][Next]_vars

\* Mutators that re-request deferred signals.
NextDeferred ==
  \/ \E t \in Threads : Deferring(t)
  \/ RequestTermination


SpecDeferred == Init /\ [][NextDeferred]_vars

\* A thread whose weak-barrier-state was switched leaves DoHandshake.
LeaveDoHandshake(t) == weak_signal[t] = DoHandshake /\ LeaveBarrier(t)

\* mark_dead() once started runs to its last store.
FinishMarkDead(t) == MarkDead2(t) \/ MarkDead3(t)

\* The handshake under a fair scheduler: the collector keeps running, a
\* thread that was sent a signal handles it, a thread inside mark_dead()
\* completes it, and a thread switched to DoHandshake leaves that state.
SpecFair ==
  /\ Spec
  /\ WF_vars(Collector)
  /\ \A t \in Threads : WF_vars(HandleSignal(t))
  /\ \A t \in Threads : WF_vars(FinishMarkDead(t))
  /\ \A t \in Threads : WF_vars(LeaveDoHandshake(t))

\* thread_struct_handle(): a starting thread constructs its record and links
\* it in at the head of the registry.
Register(t) ==
  /\ tpc[t] = "new"
  /\ thread_struct_list' = <<t>> \o thread_struct_list
  /\ tpc' = [tpc EXCEPT ![t] = "run"]
  /\ UNCHANGED <<nonhs, respun, recvars, sigq, request_gc_termination, colvars>>

\* One thread is registered; the others have not started yet.
InitRegister ==
  /\ thread_struct_list = <<NThreads>>
  /\ tpc = [t \in Threads |-> IF t = NThreads THEN "run" ELSE "new"]
  /\ status_idx = [t \in Threads |-> sigInit]
  /\ weak_signal = [t \in Threads |-> Working]
  /\ live = [t \in Threads |-> Live]
  /\ mark_signal_disabled = [t \in Threads |-> FALSE]
  /\ sweep_signal_disabled = [t \in Threads |-> FALSE]
  /\ sigq = [t \in Threads |-> {}]
  /\ request_gc_termination = FALSE
  /\ cpc = "idle"
  /\ h = NoThread
  /\ sig = sigInit
  /\ doWeakCheck = FALSE
  /\ r_status = Unread
  /\ aborted = FALSE
  /\ sent = [t \in Threads |-> 0]
  /\ seen = [t \in Threads |-> Unvisited]
  /\ respun = [t \in Threads |-> FALSE]
  /\ InitCas
  /\ InitStack
  /\ InitOnceish

\* The handshake among mutators, with threads that start while it runs.
NextRegister ==
  \/ Next
  \/ \E t \in Threads : Register(t)

SpecRegister == InitRegister /\ [][NextRegister]_vars

\* The same mutators, each scheduled again and again: a spinning thread
\* yields and is rescheduled, and a queued signal is delivered.
SpecDeferredFair ==
  /\ SpecDeferred
  /\ \A t \in Threads : WF_vars(DeferredCheck(t) \/ DeferredYield(t))
  /\ \A t \in Threads : WF_vars(HandleSignal(t))

\* Callers of process_onceish sharing one counter.
SpecOnceish == Init /\ [][NextOnceish]_vars

\* Callers of the CAS retry primitive on one word, among other writers.
SpecCas == Init /\ [][NextCas]_vars

\* Threads publishing progress with increment_to_at_least.
SpecInc == Init /\ [][NextInc]_vars

\* Threads pushing and popping on one lf_stack.
SpecStack == Init /\ [][NextStack]_vars

\* Threads using every operation of one lf_stack.
SpecStackAll == Init /\ [][NextStackAll]_vars

\* The same threads, each of them scheduled again and again.
SpecStackFair == SpecStackAll /\ \A p \in Procs : WF_vars(StackAllProc(p))

SpecSplice == Init /\ [][NextSplice]_vars

\* One thread alone on the stack.
NextSeq == StackProc(1)

SpecSeq == Init /\ [][NextSeq]_vars



(***************************************************************************)
(* Properties of the handshake.                                            *)
(***************************************************************************)
Registry == {thread_struct_list[i] : i \in 1..Len(thread_struct_list)}

CollectorMoved == cpc' # cpc \/ h' # h

\* C1: handshake(phase, false) that was not aborted by the termination flag
\* has returned only after the collector observed every record of the
\* registry dead or with status = phase; the participants that are still
\* live have all set their status to phase by then.
C1_HandshakeConvergence ==
  (cpc = "returned" /\ ~aborted /\ ~doWeakCheck) =>
    \A t \in Registry :
      /\ seen[t].visited
      /\ seen[t].dead \/ seen[t].status = sig
      /\ live[t] = Dead \/ status_idx[t] = sig

C1_Witness ==
  /\ cpc = "returned" /\ ~aborted /\ ~doWeakCheck
  /\ \A t \in Registry : live[t] = Live /\ status_idx[t] = sig /\ sent[t] = 1

C5_TerminationAbort ==
  /\ [][(cpc = "w_term" /\ request_gc_termination /\ CollectorMoved)
         => (cpc' = "returned" /\ aborted' /\ h' = h /\ seen' = seen
             /\ UNCHANGED recvars)]_vars
  /\ [][cpc = "returned" => (cpc' = "returned" /\ seen' = seen /\ h' = h)]_vars

C5_Witness ==
  /\ cpc = "returned" /\ aborted
  /\ live[h] = Live /\ status_idx[h] # sig /\ ~seen[h].visited
  /\ \E t \in Registry : t # h /\ ~seen[t].visited /\ live[t] = Live

C7_DeadRecordSkipped ==
  [][/\ (cpc = "w_dead" /\ live[h] = Dead /\ CollectorMoved) =>
          (h' = next(h) /\ cpc' = WaitAfter(h))
     /\ (cpc = "p_dead" /\ live[h] = Dead /\ CollectorMoved) =>
          (h' = next(h) /\ cpc' = PostAfter(h) /\ sigq' = sigq
           /\ weak_signal' = weak_signal /\ sent' = sent)]_vars

C7_Witness ==
  /\ cpc = "returned" /\ ~aborted
  /\ \E t \in Registry :
       /\ sent[t] = 1 /\ seen[t].dead /\ status_idx[t] # sig
       /\ \E u \in Registry : IndexOf(u) > IndexOf(t) /\ seen[u].visited

\* C8: a record whose liveness flag is Dead has both signal-disable flags
\* set, in every state, and a Dead record stays Dead with both flags set.
C8_DeathAfterDisable ==
  /\ [](\A t \in Threads :
          live[t] = Dead => mark_signal_disabled[t] /\ sweep_signal_disabled[t])
  /\ [][\A t \in Threads :
          live[t] = Dead =>
            /\ live'[t] = Dead
            /\ mark_signal_disabled'[t] /\ sweep_signal_disabled'[t]]_vars

C8_Witness ==
  \E t, u \in Threads :
    /\ live[t] = Dead /\ mark_signal_disabled[t] /\ sweep_signal_disabled[t]
    /\ tpc[u] = "md_live" /\ live[u] = Live


(***************************************************************************)
(* Properties of the lock-free stack.                                      *)
(***************************************************************************)
RECURSIVE Chain(_, _)
\* The entries linked from n, following next at most `fuel` times.
Chain(n, fuel) ==
  IF n = Null \/ fuel = 0 THEN <<>>
  ELSE <<n>> \o Chain(st_next[n], fuel - 1)

\* The entries linked from head; a cycle shows as a repeated entry.
StackChain == Chain(st_head.ptr, NNodes + 1)

Occurrences(n) == Cardinality({i \in 1..Len(StackChain) : StackChain[i] = n})

\* C3: no node is held by two threads or held by a thread while linked from
\* head, and every node has been pushed exactly as often as it was popped,
\* plus once if it is linked from head now (and at most once).
C3_StackConservation ==
  /\ \A n \in Nodes : Occurrences(n) <= 1
  /\ \A n \in Nodes : pushes[n] = pops[n] + Occurrences(n)
  /\ \A p, q \in Procs : p # q => owned[p] \cap owned[q] = {}
  /\ \A p \in Procs : \A n \in owned[p] : Occurrences(n) = 0 /\ n \notin st_free

C3_Witness ==
  /\ \A p \in Procs : s_pc[p] = "idle"
  /\ n_ops = MaxOps
  /\ \E n, m \in Nodes :
       /\ n # m /\ pushes[n] = 2 /\ pops[n] = 1 /\ Occurrences(n) = 1
       /\ pops[m] = 1 /\ \E p \in Procs : m \in owned[p]

\* A pop holds a stale head: same raw pointer as head now, other version.
StaleHead(p) ==
  /\ s_pc[p] = "pop_cas"
  /\ s_prior[p].ptr = st_head.ptr
  /\ s_prior[p].ver # st_head.ver

\* C4: the compare-and-swap of a pop whose observed head has the current raw
\* pointer but an older version fails and reloads head; and a pop that does
\* succeed installs the next pointer the head entry has at that instant.
C4_AbaResistance ==
  [][\A p \in Procs :
       /\ (StaleHead(p) /\ s_pc'[p] # s_pc[p]) =>
            (st_head' = st_head /\ s_prior'[p] = st_head /\ pops' = pops)
       /\ (s_pc[p] = "pop_cas" /\ s_pc'[p] # s_pc[p] /\ st_head' # st_head) =>
            (st_head'.ptr = st_next[st_head.ptr]
             /\ st_head'.ver = st_head.ver + 1)]_vars

C4_Witness ==
  \E p \in Procs : StaleHead(p) /\ s_new[p] # st_next[st_head.ptr]

(***************************************************************************)
(* Properties of the CAS retry primitive.                                  *)
(***************************************************************************)
\* The continue predicate is false on the value first_try loaded.
FirstVeto(p) ==
  \/ ~ContinueFn(cas_cont[p], first_obs[p])
  \/ cas_kind[p] = "bounded" /\ tries_arg[p] = 0

\* C9: a call of once or loop whose continue predicate is false on the first
\* observed value never invokes update and never attempts a compare-and-swap;
\* it returns succeeded = false with prior_value the observed value, and its
\* return leaves the word as it is.
C9_Veto ==
  /\ [](\A p \in Callers :
          (cas_pc[p] # "idle" /\ FirstVeto(p)) =>
            /\ n_upd[p] = 0 /\ n_cas[p] = 0
            /\ ~succeeded[p]
            /\ prior_value[p] = first_obs[p])
  /\ [][\A p \in Callers :
          (cas_pc[p] = "try" /\ FirstVeto(p) /\ cas_pc'[p] # "try") =>
            (cas_pc'[p] = "done" /\ a' = a)]_vars

C9_Witness ==
  \E p \in Callers :
    /\ cas_pc[p] = "done" /\ cas_kind[p] = "loop"
    /\ cas_cont[p] = Below(1) /\ first_obs[p] = 2 /\ a = 2

\* C10: try_cas_loop with max_tries = K makes at most K compare-and-swap
\* attempts (none when K = 0) and evaluates its bound at most K + 1 times; if
\* it returns without success, prior_value is the last value it observed.
C10_BoundedRetry ==
  \A p \in Callers :
    cas_kind[p] = "bounded" =>
      /\ n_cas[p] <= tries_arg[p]
      /\ n_upd[p] <= tries_arg[p]
      /\ max_tries[p] >= -1
      /\ (cas_pc[p] = "done" /\ ~succeeded[p]) => prior_value[p] = last_obs[p]

C10_Witness ==
  \E p \in Callers :
    /\ cas_kind[p] = "bounded" /\ cas_pc[p] = "done"
    /\ tries_arg[p] = MaxTries /\ n_cas[p] = MaxTries
    /\ cas_cont[p] = Always
    /\ ~succeeded[p] /\ prior_value[p] = a

(***************************************************************************)
(* Further properties of the lock-free stack.                              *)
(***************************************************************************)
\* No thread enters push in this step.
NoPushStarted == \A p \in Procs : s_pc'[p] = "push_try" => s_pc[p] = "push_try"

\* C11: a pop that observes a null head, on its first load or on the reload
\* after a lost compare-and-swap, returns at once with ret = nullptr and
\* leaves head, pointer and version, as it is; no node changes hands.
C11_PopEmpty ==
  [][/\ (n_ops' # n_ops /\ NoPushStarted /\ st_head.ptr = Null) =>
          /\ s_pc' = s_pc /\ st_head' = st_head /\ pops' = pops /\ owned' = owned
          /\ \E p \in Procs :
               s_pc[p] = "idle" /\ s_ret'[p] = Null /\ s_prior'[p] = st_head
     /\ \A p \in Procs :
          (s_pc[p] = "pop_cas" /\ s_prior'[p] # s_prior[p] /\ s_prior'[p].ptr = Null) =>
            /\ s_pc'[p] = "idle" /\ s_ret'[p] = Null
            /\ st_head' = st_head /\ pops' = pops /\ owned' = owned]_vars

C11_Witness ==
  \E p \in Procs :
    /\ s_pc[p] = "idle" /\ s_ret[p] = Null /\ s_new[p] # Null
    /\ s_prior[p] = st_head /\ st_head.ptr = Null /\ st_head.ver >= 2
    /\ \A n \in Nodes : pops[n] > 0 => n \notin owned[p]

\* C12: on a stack used by one thread, a push puts its node in front of the
\* nodes already linked, a pop returns the node in front and leaves the
\* others in their order, and a pop on the empty stack returns null: the
\* pops return the nodes in the reverse order of their pushes. No
\* compare-and-swap of the single thread fails.
C12_SequentialLifo ==
  [][/\ (s_pc[1] = "push_try") =>
          (s_pc'[1] = "idle" /\ StackChain' = <<s_node[1]>> \o StackChain)
     /\ (s_pc[1] = "pop_cas") =>
          /\ s_pc'[1] = "idle" /\ StackChain # <<>>
          /\ s_ret'[1] = Head(StackChain) /\ StackChain' = Tail(StackChain)
          /\ pops'[Head(StackChain)] = pops[Head(StackChain)] + 1
     /\ (n_ops' # n_ops /\ NoPushStarted) =>
          IF StackChain = <<>> THEN s_pc'[1] = "idle" /\ s_ret'[1] = Null
          ELSE s_pc'[1] = "pop_next"
     /\ (s_pc[1] \notin {"push_try", "pop_cas"}) => StackChain' = StackChain]_vars

C12_Witness ==
  /\ s_pc[1] = "idle" /\ n_ops = 2 * NNodes + 1
  /\ \A n \in Nodes : pushes[n] = 1 /\ pops[n] = 1 /\ n \in owned[1]
  /\ StackChain = <<>> /\ s_ret[1] = Null
  /\ st_head.ver = 2 * NNodes
  /\ \E n \in Nodes : Len(Chain(n, NNodes + 1)) = NNodes

\* The expected value of the compare-and-swap thread p is about to make.
ExpectedHead(p) == IF s_pc[p] = "clr_cas" THEN temp[p] ELSE s_prior[p]

AtHeadCas(p) == s_pc[p] \in {"push_try", "bpush_try", "pop_cas", "clr_cas"}

Attempts(p) == n_cas'[p] = n_cas[p] + 1

\* C14: a call of loop (try_cas_loop, cas_loop, bounded or not) makes its
\* successful compare-and-swap last: that step finds the word equal to
\* prior_value and leaves it equal to new_value = update(prior_value), and
\* the call is over. A failed attempt leaves the word alone and sets
\* prior_value to the value it found, on which the next round evaluates
\* continue and update.
C14_LoopCommit ==
  /\ [](\A p \in Callers :
          cas_kind[p] \in {"loop", "bounded"} =>
            /\ (cas_pc[p] = "try" /\ n_cas[p] > 0) => prior_value[p] = last_obs[p]
            /\ succeeded[p] =>
                 /\ cas_pc[p] = "done" /\ n_cas[p] >= 1
                 /\ new_value[p] = UpdateFn(cas_upd[p], prior_value[p])
                 /\ last_obs[p] = prior_value[p])
  /\ [][\A p \in Callers :
          (cas_kind[p] \in {"loop", "bounded"} /\ Attempts(p)) =>
            /\ ContinueFn(cas_cont[p], prior_value[p])
            /\ new_value'[p] = UpdateFn(cas_upd[p], prior_value[p])
            /\ IF a = prior_value[p]
                 THEN /\ succeeded'[p] /\ cas_pc'[p] = "done"
                      /\ a' = new_value'[p] /\ prior_value'[p] = prior_value[p]
                 ELSE /\ ~succeeded'[p] /\ cas_pc'[p] = "try"
                      /\ a' = a /\ prior_value'[p] = a]_vars
  /\ [][\A p \in Callers : cas_pc[p] = "done" => UNCHANGED
          <<cas_pc[p], succeeded[p], prior_value[p], new_value[p], n_cas[p]>>]_vars

C14_Witness ==
  \E p \in Callers :
    /\ cas_kind[p] = "loop" /\ cas_pc[p] = "done" /\ succeeded[p]
    /\ cas_upd[p] = Inc /\ n_cas[p] = 3
    /\ first_obs[p] = 0 /\ prior_value[p] = 1 /\ new_value[p] = 2 /\ a = 2

\* C15: once (try_cas) and change (try_change_value) make at most one
\* compare-and-swap and are over after it. change succeeds exactly when the
\* word equals from, and then sets it to to. A call of either that fails
\* leaves the word as it is, with succeeded = false and prior_value, hence
\* resulting_value, the value it found in the word.
C15_SingleShot ==
  /\ [](\A p \in Callers :
          cas_kind[p] \in {"once", "change"} =>
            /\ n_cas[p] <= 1
            /\ n_cas[p] = 1 => cas_pc[p] = "done"
            /\ (cas_pc[p] = "done" /\ ~succeeded[p]) =>
                 prior_value[p] = last_obs[p] /\ resulting_value(p) = last_obs[p]
            /\ (cas_pc[p] = "done" /\ succeeded[p]) =>
                 resulting_value(p) = new_value[p])
  /\ [][\A p \in Callers :
          /\ (cas_kind'[p] = "change" /\ cas_pc[p] = "idle") =>
               /\ cas_pc'[p] = "done"
               /\ succeeded'[p] <=> (a = change_from'[p])
               /\ a' = (IF a = change_from'[p] THEN new_value'[p] ELSE a)
               /\ prior_value'[p] = a
          /\ (cas_kind[p] = "once" /\ cas_pc[p] = "try" /\ cas_pc'[p] # "try") =>
               /\ cas_pc'[p] = "done"
               /\ ~succeeded'[p] => (a' = a /\ prior_value'[p] = last_obs'[p])
               /\ (~succeeded'[p] /\ Attempts(p)) => prior_value'[p] = a
               /\ succeeded'[p] => (a = prior_value[p] /\ a' = new_value'[p])
          /\ (cas_kind[p] = "once" /\ cas_pc[p] = "try") => cas_pc'[p] # "try"
               \/ UNCHANGED <<cas_pc[p], n_cas[p], prior_value[p], succeeded[p]>>]_vars

C15_Witness ==
  \E p \in Callers :
    /\ cas_kind[p] = "change" /\ cas_pc[p] = "done" /\ ~succeeded[p]
    /\ change_from[p] = 0 /\ new_value[p] = 1 /\ prior_value[p] = 2 /\ a = 2
    /\ resulting_value(p) = 2 /\ n_cas[p] = 1

\* The target of the increment_to_at_least call of p.
Target(p) == cas_upd[p].to

\* C16: under concurrent increment_to_at_least calls the word never
\* decreases. A round that finds its observed value at or above the target
\* returns without touching the word, succeeded = false and resulting_value
\* the observed value; a successful round sets the word to exactly the
\* target. When a call has returned, resulting_value >= target and the word
\* is at or above the target.
C16_MonotonicProgress ==
  /\ [][a' >= a]_vars
  /\ [][\A p \in Callers :
          (cas_pc[p] = "try" /\ cas_pc'[p] = "done") =>
            IF prior_value[p] >= Target(p)
              THEN /\ a' = a /\ ~succeeded'[p] /\ n_cas'[p] = n_cas[p]
                   /\ resulting_value(p)' = prior_value[p]
              ELSE /\ succeeded'[p] /\ a = prior_value[p] /\ a' = Target(p)
                   /\ resulting_value(p)' = Target(p)]_vars
  /\ [](\A p \in Callers :
          cas_pc[p] = "done" => (resulting_value(p) >= Target(p) /\ a >= Target(p)))

C16_Witness ==
  \E p, q \in Callers :
    /\ cas_pc[p] = "done" /\ cas_pc[q] = "done"
    /\ Target(p) = 1 /\ Target(q) = 2
    /\ ~succeeded[p] /\ n_cas[p] = 1 /\ first_obs[p] = 0 /\ resulting_value(p) = 2
    /\ succeeded[q] /\ a = 2

\* A push, bulk push, pop or unlink step of clear succeeds in this step.
HeadUpdated == pushes' # pushes \/ pops' # pops \/ unlinks' # unlinks

\* C17: every successful push, bulk push, pop and unlink step of clear
\* raises the version in head, nothing else changes head (a pop that finds
\* the stack empty, a clear that finds it empty and every failed
\* compare-and-swap leave pointer and version alone), and the pointer never
\* changes without the version.
C17_VersionMonotonic ==
  [][/\ HeadUpdated => st_head'.ver > st_head.ver
     /\ ~HeadUpdated => st_head' = st_head
     /\ st_head'.ver >= st_head.ver
     /\ st_head'.ptr # st_head.ptr => st_head'.ver # st_head.ver
     /\ \A p \in Procs :
          (AtHeadCas(p) /\ ~HeadMatches(st_head, ExpectedHead(p))
             /\ s_pc'[p] # s_pc[p]) => st_head' = st_head]_vars

C17_Witness ==
  /\ st_head.ver = 3
  /\ \E n \in Nodes : unlinks[n] = 1 /\ pushes[n] = 2 /\ st_head.ptr = n
  /\ \E p \in Procs : s_pc[p] = "pop_cas" /\ s_prior[p].ptr = st_head.ptr
                          /\ s_prior[p].ver = 1

\* C18: push(node) and push(begin, end) are left only by a successful
\* compare-and-swap: it finds head as the thread last observed it, makes
\* node (resp. begin) the head, and the next of node (resp. end) is the head
\* pointer it replaced; the links from begin to end are as the caller made
\* them, so the chain linked from head becomes begin..end followed by what it
\* was. A successful pop returns the first entry of that chain and leaves
\* the rest in order.
C18_PushSplice ==
  [][\A p \in Procs :
       /\ (s_pc[p] = "push_try" /\ s_pc'[p] # "push_try") =>
            /\ st_head = s_prior[p]
            /\ st_head'.ptr = s_node[p] /\ st_next'[s_node[p]] = st_head.ptr
            /\ pushes'[s_node[p]] = pushes[s_node[p]] + 1
            /\ StackChain' = <<s_node[p]>> \o StackChain
       /\ (s_pc[p] = "bpush_try" /\ s_pc'[p] # "bpush_try") =>
            /\ st_head = s_prior[p]
            /\ st_head'.ptr = s_node[p] /\ st_next'[s_end[p]] = st_head.ptr
            /\ \A n \in Segment(s_node[p], s_end[p]) \ {s_end[p]} :
                 st_next'[n] = st_next[n]
            /\ StackChain' = Path(s_node[p], s_end[p], NNodes) \o StackChain
       /\ (s_pc[p] = "pop_cas" /\ s_pc'[p] # "pop_cas" /\ pops' # pops) =>
            /\ s_pc'[p] = "idle" /\ StackChain # <<>>
            /\ s_ret'[p] = Head(StackChain) /\ StackChain' = Tail(StackChain)]_vars

C18_Witness ==
  /\ \A p \in Procs : s_pc[p] = "idle"
  /\ Len(StackChain) = NNodes /\ StackChain[1] # StackChain[2]
  /\ \E p \in Procs : s_node[p] = StackChain[1] /\ s_end[p] = StackChain[NNodes]
  /\ \A n \in Nodes : pops[n] >= 1 /\ pushes[n] = pops[n] + 1

\* How many threads hold entry n detached.
Holders(n) == Cardinality({p \in Procs : n \in owned[p]})

\* How many clears have unlinked entry n and not yet deallocated it.
Unlinking(n) == Cardinality({p \in Procs : s_pc[p] = "clr_free" /\ temp[p].ptr = n})

\* Thread q has made no compare-and-swap on head.
Pristine(q) ==
  /\ s_pc[q] = "idle" /\ s_node[q] = Null /\ s_ret[q] = Null
  /\ temp[q].ver = 0 /\ s_prior[q].ver = 0

\* C19: clear returns only on a null head: one it read, or the one its own
\* last unlink installed. An entry is destructed and deallocated by the clear
\* that unlinked it, once, after the unlinking compare-and-swap and while no
\* one else holds it; a failed step goes on from the head it found. Every
\* entry is at each moment in exactly one place (free, held by one thread, or
\* linked once from head), and was pushed as often as it was popped or
\* unlinked, plus once if it is linked. A clear that ran with no other
\* thread operating leaves the stack empty with every entry it held destroyed.
C19_Clear ==
  /\ [](\A n \in Nodes :
          /\ (IF n \in st_free THEN 1 ELSE 0) + Holders(n) + Occurrences(n) = 1
          /\ pushes[n] = pops[n] + unlinks[n] + Occurrences(n)
          /\ unlinks[n] = destroyed[n] + Unlinking(n))
  /\ [](\A p \in Procs : s_pc[p] = "clr_free" => temp[p].ptr \in owned[p])
  /\ [][\A p \in Procs :
          /\ (s_pc[p] = "clr_cas" /\ s_pc'[p] = "idle") =>
               (st_head.ptr = Null /\ st_head' = st_head /\ temp'[p] = st_head)
          /\ (s_pc[p] = "clr_cas" /\ s_pc'[p] = "clr_next") =>
               (st_head' = st_head /\ temp'[p] = st_head /\ destroyed' = destroyed)
          /\ (s_pc[p] = "clr_cas" /\ s_pc'[p] = "clr_free") =>
               (st_head = temp[p] /\ st_head'.ptr = st_next[temp[p].ptr]
                /\ destroyed' = destroyed /\ st_free' = st_free)
          /\ (s_pc[p] = "clr_free" /\ s_pc'[p] # "clr_free") =>
               /\ destroyed'[temp[p].ptr] = destroyed[temp[p].ptr] + 1
               /\ st_free' = st_free \cup {temp[p].ptr}
               /\ temp'[p].ptr = s_new[p]
               /\ s_pc'[p] = (IF s_new[p] = Null THEN "idle" ELSE "clr_next")
          /\ (s_pc[p] \in {"clr_next", "clr_cas", "clr_free"} /\ s_pc'[p] = "idle"
                /\ \A q \in Procs \ {p} : Pristine(q)) =>
               /\ StackChain' = <<>>
               /\ \A n \in Nodes : destroyed'[n] = pushes[n] - pops[n]]_vars

C19_Witness ==
  \E p, q \in Procs :
    /\ p # q /\ s_pc[p] = "clr_free" /\ st_next[temp[p].ptr] = Null
    /\ unlinks[temp[p].ptr] = 1
    /\ s_pc[q] = "idle" /\ s_node[q] = st_head.ptr /\ st_head.ptr # Null
    /\ s_prior[q] = [ptr |-> Null, ver |-> temp[p].ver + 1]

(***************************************************************************)
(* Further properties of the handshake.                                    *)
(***************************************************************************)
InPost == cpc \in {"p_head", "p_dead", "p_cas", "p_send"}

\* post_handshake of the current handshake() call has returned.
PostDone == cpc \notin {"idle", "p_head", "p_dead", "p_cas", "p_send"}

\* post_handshake is done with record t.
PostPassed(t) ==
  \/ PostDone
  \/ cpc \in {"p_dead", "p_cas", "p_send"} /\ IndexOf(t) < IndexOf(h)

\* C20: post_handshake passes every record of the registry, dead ones
\* included. A record it finds dead gets no signal and no weak check; a
\* record it finds live gets, after the weak check if one is asked for and
\* whatever the weak-barrier-state was, exactly one signal carrying phase.
C20_PostSignals ==
  /\ [](\A t \in Registry :
          /\ sent[t] <= 1
          /\ sent[t] = 1 => PostPassed(t)
          /\ PostPassed(t) => (sent[t] = 1 \/ live[t] = Dead)
          /\ (InPost /\ ~PostPassed(t)) => sent[t] = 0)
  /\ [][/\ (cpc = "p_dead" /\ CollectorMoved) =>
             IF live[h] = Dead
               THEN /\ h' = next(h) /\ cpc' = PostAfter(h)
                    /\ sent' = sent /\ sigq' = sigq /\ weak_signal' = weak_signal
               ELSE h' = h /\ cpc' = (IF doWeakCheck THEN "p_cas" ELSE "p_send")
        /\ (cpc = "p_cas" /\ CollectorMoved) =>
             (cpc' = "p_send" /\ h' = h /\ sent' = sent /\ sigq' = sigq)
        /\ (cpc = "p_send" /\ CollectorMoved) =>
             /\ sent' = [sent EXCEPT ![h] = sent[h] + 1]
             /\ sigq' = [sigq EXCEPT ![h] = sigq[h] \cup {sig}]
             /\ h' = next(h) /\ cpc' = PostAfter(h)
        /\ (cpc # "p_send" /\ cpc' # "p_head") => sent' = sent]_vars

C20_Witness ==
  /\ cpc = "w_head" /\ doWeakCheck
  /\ \E t, u \in Registry :
       /\ IndexOf(t) < IndexOf(u)
       /\ live[t] = Dead /\ sent[t] = 0
       /\ live[u] = Live /\ sent[u] = 1 /\ sig \in sigq[u]
       /\ weak_signal[u] = Working

(***************************************************************************)
(* Who writes the participant records.                                     *)
(***************************************************************************)
\* C21 as stated: no step of the collector's handshake changes any field of
\* a participant record.
C21_NoDirectWrite ==
  [][CollectorMoved => UNCHANGED recvars]_vars

\* C21 amended: the collector's handshake never changes a record's status,
\* liveness or signal-disabling flags; the one field it writes is the
\* weak-barrier-state of the record it is at, which it moves from InBarrier
\* to DoHandshake when a weak check is asked for. A record's status changes
\* only when its own thread takes a signal from its queue, to the phase that
\* signal stands for.
C21_OnlyWeakCasWrite ==
  [][/\ CollectorMoved =>
          /\ UNCHANGED <<status_idx, live, mark_signal_disabled,
                         sweep_signal_disabled>>
          /\ \A t \in Threads :
               weak_signal'[t] # weak_signal[t] =>
                 /\ t = h /\ doWeakCheck /\ cpc = "p_cas"
                 /\ weak_signal[t] = InBarrier /\ weak_signal'[t] = DoHandshake
     /\ \A t \in Threads :
          status_idx'[t] # status_idx[t] =>
            /\ ~CollectorMoved
            /\ \E s \in sigq[t] :
                 sigq'[t] = sigq[t] \ {s} /\ status_idx'[t] = RealPhase(s)]_vars

\* The collector has just switched a parked thread's weak-barrier-state, and
\* an earlier record took the phase from its signal.
C21_Witness ==
  /\ cpc = "p_send" /\ doWeakCheck /\ weak_signal[h] = DoHandshake
  /\ sent[h] = 0 /\ live[h] = Live /\ status_idx[h] = sigInit
  /\ \E t \in Registry : t # h /\ sent[t] = 1 /\ status_idx[t] = sig

(***************************************************************************)
(* The deferred path.                                                      *)
(***************************************************************************)
\* Thread t is inside do_deferred_async_signal or do_deferred_sweep_signal.
Spinning(t) == tpc[t] \in {"da_check", "da_yield", "ds_check", "ds_yield"}

\* C22: do_deferred_async_signal (do_deferred_sweep_signal) first queues the
\* deferred payload to its own thread and touches no record field; it returns
\* only from a load that finds the record's status equal to sigAsync
\* (sigSweep), the status the handler publishes for a directly handled async
\* (sweep) signal; a load that finds that status always returns. Once the
\* self-directed signal is the only one pending, or has been handled with the
\* status set by it, the function eventually returns.
C22_DeferredConvergence ==
  /\ [][\A t \in Threads :
          /\ (tpc[t] = "run" /\ Spinning(t)') =>
               /\ tpc'[t] \in {"da_check", "ds_check"}
               /\ sigq'[t] = sigq[t] \cup {DeferredSig(DeferredKind(t)')}
               /\ UNCHANGED recvars
          /\ (Spinning(t) /\ tpc'[t] = "run") =>
               /\ tpc[t] \in {"da_check", "ds_check"}
               /\ status_idx[t] = DeferredTarget(DeferredKind(t))
               /\ status_idx'[t] = RealPhase(DeferredTarget(DeferredKind(t)))
               /\ status_idx'[t] = RealPhase(DeferredSig(DeferredKind(t)))
          /\ (tpc[t] \in {"da_check", "ds_check"} /\ tpc'[t] # tpc[t]
                /\ status_idx[t] = DeferredTarget(DeferredKind(t))) =>
               tpc'[t] = "run"]_vars
  /\ \A t \in Threads :
       (/\ Spinning(t)
        /\ \/ sigq[t] = {DeferredSig(DeferredKind(t))}
           \/ sigq[t] = {} /\ status_idx[t] = DeferredTarget(DeferredKind(t)))
         ~> (tpc[t] = "run")

\* A thread is still yielding in the async spin after the handler of its
\* self-directed signal set the status, and another one in the sweep spin
\* with its signal pending.
C22_Witness ==
  \E t, u \in Threads :
    /\ tpc[t] = "da_yield" /\ sigq[t] = {} /\ status_idx[t] = sigAsync
    /\ tpc[u] = "ds_yield" /\ sigq[u] = {sigDeferredSweep}
    /\ status_idx[u] = sigAsync

(***************************************************************************)
(* Threads that register during a handshake.                               *)
(***************************************************************************)
\* C23: a live record that wait_handshake goes round its spin on was sent the
\* phase signal by post_handshake of the same handshake() call.
C23_SpunOnWasSignalled ==
  (cpc = "w_term" /\ live[h] = Live) => sent[h] >= 1

(***************************************************************************)
(* What post_handshake and wait_handshake write.                           *)
(***************************************************************************)
InWait == cpc \in {"w_head", "w_dead", "w_status", "w_weak", "w_term"}

\* C24: post_handshake reaches its compare-and-swap only with
\* weak_check set and right after it read the record live (the record may
\* have died since); the compare-and-swap turns InBarrier into DoHandshake
\* and leaves Working and DoHandshake as they are, and touches no other
\* record and no other field. A record read dead is passed without a write.
\* Every other step of post_handshake, every step of a handshake without
\* weak_check, and every step of wait_handshake leaves all records
\* unchanged.
C24_HandshakeWrites ==
  [][CollectorMoved =>
       /\ UNCHANGED <<status_idx, live, mark_signal_disabled,
                      sweep_signal_disabled>>
       /\ cpc' = "p_cas" => (cpc = "p_dead" /\ doWeakCheck /\ live[h] = Live
                               /\ h' = h)
       /\ cpc = "p_cas" =>
            /\ doWeakCheck
            /\ weak_signal'[h] =
                 (IF weak_signal[h] = InBarrier THEN DoHandshake
                  ELSE weak_signal[h])
            /\ \A t \in Threads \ {h} : weak_signal'[t] = weak_signal[t]
       /\ (cpc = "p_dead" /\ live[h] = Dead) =>
            (cpc' # "p_cas" /\ UNCHANGED recvars)
       /\ (cpc # "p_cas" \/ ~doWeakCheck \/ InWait) => UNCHANGED recvars]_vars

\* A weak-check handshake is waiting: one record was read dead while parked
\* in the barrier and was left InBarrier, a live one was switched to
\* DoHandshake and signalled.
C24_Witness ==
  /\ cpc = "w_term" /\ doWeakCheck
  /\ \E t, u \in Registry :
       /\ live[t] = Dead /\ weak_signal[t] = InBarrier /\ sent[t] = 0
       /\ live[u] = Live /\ weak_signal[u] = DoHandshake /\ sent[u] = 1
       /\ h = u /\ status_idx[u] = sig /\ tpc[u] = "run"

(***************************************************************************)
(* Liveness of the handshake.                                              *)
(***************************************************************************)
InHandshake == InPost \/ InWait

\* C25: with the termination flag never set, a handshake() call that has
\* started eventually returns, with and without weak_check, when the
\* collector is scheduled fairly, every thread that is sent the signal
\* publishes the phase in its status or is marked dead, and every thread
\* switched to DoHandshake leaves that state.
C25_HandshakeLiveness ==
  ([] ~request_gc_termination) => (InHandshake ~> (cpc = "returned"))

\* A weak-check handshake returned without termination: it waited for a
\* live thread that it had signalled, and passed a dead one.
C25_Witness ==
  /\ cpc = "returned" /\ ~aborted /\ ~request_gc_termination /\ doWeakCheck
  /\ \E t, u \in Registry :
       /\ live[t] = Live /\ sent[t] = 1 /\ seen[t].status = sig
       /\ seen[t].weak = InBarrier
       /\ seen[u].dead /\ sent[u] = 1

(***************************************************************************)
(* Properties of process_onceish.                                          *)
(***************************************************************************)
\* C26: once the counter is set up, a changes only from i to i + 1, by the
\* compare-and-swap of a caller whose next is i and whose fn has run on
\* element i; a never exceeds the number of elements n; the next of a
\* caller is a value a had, a caller returns only from a test that found
\* next >= n, and a is n by then; fn has run at least once on every
\* element from the initial a up to a, hence on every element from the
\* initial a up to n when a caller has returned.
C26_Onceish ==
  /\ [](po_ready =>
          /\ po_a0 <= a /\ a <= po_n
          /\ \A i \in Elems : (po_a0 <= i /\ i < a) => applied[i] >= 1
          /\ \A p \in Callers :
               /\ po_pc[p] # "idle" => (po_a0 <= po_next[p] /\ po_next[p] <= a)
               /\ po_pc[p] = "returned" =>
                    /\ po_next[p] >= po_n /\ a = po_n
                    /\ \A i \in Elems :
                         (po_a0 <= i /\ i < po_n) => applied[i] >= 1)
  /\ [][(po_ready /\ a' # a) =>
          /\ a' = a + 1
          /\ \E p \in Callers :
               /\ po_pc[p] = "cas" /\ po_next[p] = a /\ a \in applied_by[p]
               /\ cas_pc[p] = "idle" /\ cas_pc'[p] = "done"
               /\ succeeded'[p] /\ resulting_value(p)' = a + 1]_vars
  /\ [][\A p \in Callers :
          (po_pc[p] # "returned" /\ po_pc'[p] = "returned") =>
            (po_pc[p] = "test" /\ po_next[p] >= po_n /\ a >= po_n)]_vars

\* Both callers have returned from a sequence of MaxVal elements started at
\* 0: each element was processed, the first one by both callers.
C26_Witness ==
  /\ po_ready /\ po_n = MaxVal /\ po_a0 = 0
  /\ \A p \in Callers : po_pc[p] = "returned"
  /\ applied[0] = 2
  /\ \E p \in Callers : applied_by[p] = {0}

=============================================================================
